---- MODULE Spec2Model ----
(***************************************************************************)
(* Model of generate_consensus_peaks/create_intersect_matrix.py:           *)
(* macs2_merged_expand reads a merged MACS2 interval file twice (sample    *)
(* discovery, then row expansion) and writes the annotated table and the   *)
(* sample-combination frequency table.                                     *)
(*                                                                         *)
(* Strings are sequences of one-character strings, so that the string      *)
(* splitting that derives sample and group names is computed, not assumed. *)
(* A row is the sequence of its tab-separated columns; a column is the     *)
(* sequence of its comma-separated tokens.  A numeric token is a record    *)
(* [ok, v]: ok says whether int()/float() accepts the text.                *)
(***************************************************************************)
EXTENDS Integers, Sequences, FiniteSets, TLC

VARIABLES file, min_replicates, pc, line_no, all_sample_names,
          sample_name_list, fout, comb_freq_dict, total_out_intervals,
          intersect_out, emitted_from

vars == <<file, min_replicates, pc, line_no, all_sample_names,
          sample_name_list, fout, comb_freq_dict, total_out_intervals,
          intersect_out, emitted_from>>

----------------------------------------------------------------------------
(* Bounds of the explored inputs *)

MaxRows == 3

MaxMinRep == 2

----------------------------------------------------------------------------
(* Strings *)

DOT == <<".">>

US == <<"_">>

PEAK == <<"_", "p", "e", "a", "k", "_">>

\* code point of the characters that occur in the names
Ord(c) ==
  CASE c = "." -> 46 [] c = "1" -> 49 [] c = "2" -> 50
    [] c = "A" -> 65 [] c = "B" -> 66 [] c = "_" -> 95
    [] c = "a" -> 97 [] c = "e" -> 101 [] c = "k" -> 107
    [] c = "p" -> 112 [] c = "x" -> 120

\* Python's < on str: lexicographic by code point, a proper prefix is smaller
StrLess(a, b) ==
  \E i \in 1..Len(b) :
    /\ i <= Len(a) + 1
    /\ \A j \in 1..(i - 1) : a[j] = b[j]
    /\ (i = Len(a) + 1 \/ Ord(a[i]) < Ord(b[i]))

\* Python's < on tuples of str
TupleLess(a, b) ==
  \E i \in 1..Len(b) :
    /\ i <= Len(a) + 1
    /\ \A j \in 1..(i - 1) : a[j] = b[j]
    /\ (i = Len(a) + 1 \/ StrLess(a[i], b[i]))

MatchAt(s, sep, i) ==
  /\ i + Len(sep) - 1 <= Len(s)
  /\ \A j \in 1..Len(sep) : s[i + j - 1] = sep[j]

\* str.split(sep)
RECURSIVE Split(_, _)
Split(s, sep) ==
  LET hits == {i \in 1..Len(s) : MatchAt(s, sep, i)}
  IN IF hits = {} THEN <<s>>
     ELSE LET i == CHOOSE h \in hits : \A g \in hits : h <= g
          IN <<SubSeq(s, 1, i - 1)>> \o Split(SubSeq(s, i + Len(sep), Len(s)), sep)

\* sep.join(parts)
RECURSIVE Join(_, _)
Join(parts, sep) ==
  IF Len(parts) = 0 THEN <<>>
  ELSE IF Len(parts) = 1 THEN parts[1]
  ELSE parts[1] \o sep \o Join(Tail(parts), sep)

InSeq(x, s) == \E i \in 1..Len(s) : s[i] = x

\* sorted() of a set of str
RECURSIVE SortedStrs(_)
SortedStrs(S) ==
  IF S = {} THEN <<>>
  ELSE LET m == CHOOSE x \in S : \A y \in S \ {x} : StrLess(x, y)
       IN <<m>> \o SortedStrs(S \ {m})

----------------------------------------------------------------------------
(* Name derivation *)

\* name.split(".")[0].split("_peak_")[0]
SampleId(name) == Split(Split(name, DOT)[1], PEAK)[1]

\* faulty variant: a name without "_" is its own group
GidSelfWhenNoUnderscore(sid) ==
  LET parts == Split(sid, US)
  IN IF Len(parts) = 1 THEN sid ELSE Join(SubSeq(parts, 1, Len(parts) - 1), US)

\* "_".join(sid.split("_")[:-1])
Gid(sid) ==
  LET parts == Split(sid, US)
  IN Join(SubSeq(parts, 1, Len(parts) - 1), US)

SampleIdsOf(names) == [i \in 1..Len(names) |-> SampleId(names[i])]

----------------------------------------------------------------------------
(* Row parsing *)

\* int(text) / float(text) of a whole column: one token, and numeric
IntOk(col) == Len(col) = 1 /\ col[1].ok

\* [int(x) for x in col.split(",")] succeeds
ListOk(col) == \A i \in 1..Len(col) : col[i].ok

\* an exception is raised while the fields of the row are parsed
ParseRaises(lspl) ==
  IF Len(lspl) < 11 THEN TRUE
  ELSE ~ /\ IntOk(lspl[2])
         /\ IntOk(lspl[3])
         /\ ListOk(lspl[4])
         /\ ListOk(lspl[5])
         /\ ListOk(lspl[9])
         /\ ListOk(lspl[10])
         /\ ListOk(lspl[11])

Values(col) == [i \in 1..Len(col) |-> col[i].v]

----------------------------------------------------------------------------
(* Replicate groups *)

EmptyGroupDict == [keys |-> <<>>, val |-> <<>>]

\* one iteration of the grouping loop
AddToGroup(gd, sid) ==
  LET gid == Gid(sid)
      g1 == IF InSeq(gid, gd.keys) THEN gd
            ELSE [keys |-> Append(gd.keys, gid), val |-> Append(gd.val, <<>>)]
      k == CHOOSE i \in 1..Len(g1.keys) : g1.keys[i] = gid
  IN IF InSeq(sid, g1.val[k]) THEN g1
     ELSE [g1 EXCEPT !.val[k] = Append(@, sid)]

\* group_dict: the groups in insertion order, each with its distinct samples
RECURSIVE GroupDictOf(_, _)
GroupDictOf(sids, n) ==
  IF n = 0 THEN EmptyGroupDict
  ELSE AddToGroup(GroupDictOf(sids, n - 1), sids[n])

GroupDict(names) == GroupDictOf(SampleIdsOf(names), Len(names))

\* faulty variant: a group needs more than min_replicates samples
RECURSIVE PassRepThreshStrict(_, _, _)
PassRepThreshStrict(gd, mr, n) ==
  IF n = 0 THEN <<>>
  ELSE PassRepThreshStrict(gd, mr, n - 1) \o
       (IF Len(gd.val[n]) > mr THEN gd.val[n] ELSE <<>>)

\* pass_rep_thresh_list over the first n groups
RECURSIVE PassRepThresh(_, _, _)
PassRepThresh(gd, mr, n) ==
  IF n = 0 THEN <<>>
  ELSE PassRepThresh(gd, mr, n - 1) \o
       (IF Len(gd.val[n]) >= mr THEN gd.val[n] ELSE <<>>)

PassRepThreshList(names, mr) ==
  LET gd == GroupDict(names) IN PassRepThresh(gd, mr, Len(gd.keys))

----------------------------------------------------------------------------
(* Per-sample values *)

\* the source positions whose sample passed the replicate threshold
PassingIdx(names, mr) ==
  LET pass_rep_thresh_list == PassRepThreshList(names, mr)
  IN {i \in 1..Len(names) : InSeq(SampleId(names[i]), pass_rep_thresh_list)}

\* an index of the accumulation loop is out of range of one of the lists
AccumulateRaises(lspl, mr) ==
  \E i \in PassingIdx(lspl[6], mr) :
    \/ i > Len(lspl[9])
    \/ i > Len(lspl[11])
    \/ i > Len(lspl[10])
    \/ i > Len(lspl[4])
    \/ i > Len(lspl[5])

RowRaises(lspl, mr) ==
  IF ParseRaises(lspl) THEN TRUE ELSE AccumulateRaises(lspl, mr)

IdxSeq(n) == [i \in 1..n |-> i]

\* x_dict[sample]: the values of the sample's sources, in source order
Acc(sample, names, vals, tag) ==
  LET idxs == SelectSeq(IdxSeq(Len(names)), LAMBDA i : SampleId(names[i]) = sample)
  IN [k \in 1..Len(idxs) |-> <<tag, vals[idxs[k]]>>]

\* fc_dict.keys()
FcDictKeys(names, mr) == {SampleId(names[i]) : i \in PassingIdx(names, mr)}

\* samples = sorted(fc_dict.keys())
Samples(names, mr) == SortedStrs(FcDictKeys(names, mr))

----------------------------------------------------------------------------
(* Output lines *)

Header(snl) ==
  <<"chr", "start", "end", "interval_id", "num_peaks", "num_samples">>
  \o [i \in 1..Len(snl) |-> <<snl[i], "bool">>]
  \o [i \in 1..Len(snl) |-> <<snl[i], "fc">>]
  \o [i \in 1..Len(snl) |-> <<snl[i], "qval">>]
  \o [i \in 1..Len(snl) |-> <<snl[i], "pval">>]
  \o [i \in 1..Len(snl) |-> <<snl[i], "start">>]
  \o [i \in 1..Len(snl) |-> <<snl[i], "end">>]

\* faulty variant: one entry per source peak of a passing sample
NumSamplesPerSource(names, mr) == Cardinality(PassingIdx(names, mr))

\* num_samples = len(samples)
NumSamples(names, mr) == Len(Samples(names, mr))

BoolList(samples, snl) ==
  [i \in 1..Len(snl) |-> IF InSeq(snl[i], samples) THEN "TRUE" ELSE "FALSE"]

ValList(samples, snl, names, vals, tag) ==
  [i \in 1..Len(snl) |->
     IF InSeq(snl[i], samples) THEN Acc(snl[i], names, vals, tag) ELSE <<"NA">>]

\* faulty variant: the identifier is the counter itself (0-based)
IntervalIdZeroBased(total) == <<"Interval", total>>

\* f"Interval_{total_out_intervals + 1}"
IntervalId(total) == <<"Interval", total + 1>>

\* olist of an emitted row
OList(lspl, mr, snl, total) ==
  LET names == lspl[6]
      samples == Samples(names, mr)
  IN <<lspl[1], lspl[2][1].v, lspl[3][1].v, IntervalId(total),
       Len(names), NumSamples(names, mr)>>
     \o BoolList(samples, snl)
     \o ValList(samples, snl, names, Values(lspl[9]), "float")
     \o ValList(samples, snl, names, Values(lspl[11]), "float")
     \o ValList(samples, snl, names, Values(lspl[10]), "float")
     \o ValList(samples, snl, names, Values(lspl[4]), "int")
     \o ValList(samples, snl, names, Values(lspl[5]), "int")

----------------------------------------------------------------------------
(* Combination summary *)

AMP == <<"&">>

\* tsamples = tuple(sorted(samples))
TSamples(names, mr) == SortedStrs(FcDictKeys(names, mr))

\* faulty variant: a combination seen before is not counted again
CountCombinationOnce(d, t) ==
  IF t \in DOMAIN d THEN d ELSE d @@ (t :> 1)

\* comb_freq_dict after the row's combination is counted
CountCombination(d, t) ==
  IF t \in DOMAIN d THEN [d EXCEPT ![t] = @ + 1] ELSE d @@ (t :> 1)

\* Python's < on (count, tuple) pairs
PairLess(p, q) == p[1] < q[1] \/ (p[1] = q[1] /\ TupleLess(p[2], q[2]))

RECURSIVE SortedReverse(_)
SortedReverse(S) ==
  IF S = {} THEN <<>>
  ELSE LET m == CHOOSE x \in S : \A y \in S \ {x} : PairLess(y, x)
       IN <<m>> \o SortedReverse(S \ {m})

\* faulty variant: descending by count, ties in ascending tuple order
RECURSIVE SortedByNegCount(_)
SortedByNegCount(S) ==
  IF S = {} THEN <<>>
  ELSE LET m == CHOOSE x \in S : \A y \in S \ {x} :
                  y[1] < x[1] \/ (y[1] = x[1] /\ TupleLess(x[2], y[2]))
       IN <<m>> \o SortedByNegCount(S \ {m})

CombFreqItemsAscTies(d) == SortedByNegCount({<<d[x], x>> : x \in DOMAIN d})

\* sorted([(comb_freq_dict[x], x) for x in comb_freq_dict.keys()], reverse=True)
CombFreqItems(d) == SortedReverse({<<d[x], x>> : x \in DOMAIN d})

\* the lines "%s\t%s\n" % ("&".join(v), k)
IntersectLines(d) ==
  LET items == CombFreqItems(d)
  IN [i \in 1..Len(items) |-> <<Join(items[i][2], AMP), items[i][1]>>]

----------------------------------------------------------------------------
(* Input files *)

N(v) == [ok |-> TRUE, v |-> v]

X == [ok |-> FALSE, v |-> 0]

A1P1 == <<"A", "_", "1", "_", "p", "e", "a", "k", "_", "1">>

A1P2 == <<"A", "_", "1", "_", "p", "e", "a", "k", "_", "2">>

A2P1 == <<"A", "_", "2", "_", "p", "e", "a", "k", "_", "1">>

B1P1 == <<"B", "_", "1", "_", "p", "e", "a", "k", "_", "1">>

ADotX == <<"A", ".", "x">>

BPlain == <<"B">>

Nums(n) == [i \in 1..n |-> N(i)]

\* a row of 11 columns: n values in every per-source list but the
\* fold changes, which have nfc; columns 6 and 7 are not read
Row(mstart, names, n, nfc) ==
  <<"chr1", <<mstart>>, <<N(9)>>, Nums(n), Nums(n), names,
    <<>>, <<>>, Nums(nfc), Nums(n), Nums(n)>>

WellFormed(k, names) == Row(N(k), names, Len(names), Len(names))

RowPool ==
  { WellFormed(2, <<A1P1, A2P1>>),
    WellFormed(3, <<A1P1, A2P1, B1P1>>),
    WellFormed(4, <<ADotX, BPlain>>),
    WellFormed(5, <<A1P1, A1P2>>),
    \* more fold changes than names
    Row(N(7), <<A1P1, A2P1>>, 2, 3),
    \* fewer fold changes than names
    Row(N(8), <<A1P1, A2P1, B1P1>>, 3, 2),
    \* non-numeric start coordinate
    Row(X, <<A1P1>>, 1, 1),
    \* the names column is missing
    SubSeq(WellFormed(1, <<B1P1>>), 1, 5) }

Files == UNION {[1..n -> RowPool] : n \in 0..MaxRows}

MinRepValues == 1..MaxMinRep

----------------------------------------------------------------------------
(* The run *)

Init ==
  /\ file \in Files
  /\ min_replicates \in MinRepValues
  /\ pc = "discover"
  /\ line_no = 1
  /\ all_sample_names = {}
  /\ sample_name_list = <<>>
  /\ fout = <<>>
  /\ comb_freq_dict = <<>>
  /\ total_out_intervals = 0
  /\ intersect_out = <<>>
  /\ emitted_from = <<>>

\* faulty variant: only the first name of a row is collected
FirstNameOnly(lspl) == {SampleId(lspl[6][1])}

\* the sample names of one row, as collected by the first pass
RowSampleNames(lspl) == {SampleId(lspl[6][i]) : i \in 1..Len(lspl[6])}

\* first pass, one line
DiscoverRow ==
  /\ pc = "discover"
  /\ line_no <= Len(file)
  /\ Len(file[line_no]) >= 6
  /\ all_sample_names' = all_sample_names \cup RowSampleNames(file[line_no])
  /\ line_no' = line_no + 1
  /\ UNCHANGED <<file, min_replicates, pc, sample_name_list, fout,
                 comb_freq_dict, total_out_intervals, intersect_out,
                 emitted_from>>

\* first pass, lspl[5] raises IndexError
DiscoverFail ==
  /\ pc = "discover"
  /\ line_no <= Len(file)
  /\ Len(file[line_no]) < 6
  /\ pc' = "failed"
  /\ UNCHANGED <<file, min_replicates, line_no, all_sample_names,
                 sample_name_list, fout, comb_freq_dict,
                 total_out_intervals, intersect_out, emitted_from>>

\* end of the first pass: sort the names, open the output, write the header
WriteHeader ==
  /\ pc = "discover"
  /\ line_no > Len(file)
  /\ sample_name_list' = SortedStrs(all_sample_names)
  /\ fout' = <<Header(sample_name_list')>>
  /\ pc' = "expand"
  /\ line_no' = 1
  /\ UNCHANGED <<file, min_replicates, all_sample_names, comb_freq_dict,
                 total_out_intervals, intersect_out, emitted_from>>

\* faulty variant: a dropped row still takes an interval number
ExpandRowCountsDropped ==
  /\ pc = "expand"
  /\ line_no <= Len(file)
  /\ ~RowRaises(file[line_no], min_replicates)
  /\ LET lspl == file[line_no]
         samples == Samples(lspl[6], min_replicates)
     IN IF samples # <<>>
        THEN /\ fout' = Append(fout, OList(lspl, min_replicates,
                                           sample_name_list, total_out_intervals))
             /\ comb_freq_dict' =
                  CountCombination(comb_freq_dict, TSamples(lspl[6], min_replicates))
             /\ total_out_intervals' = total_out_intervals + 1
             /\ emitted_from' = Append(emitted_from, line_no)
        ELSE /\ total_out_intervals' = total_out_intervals + 1
             /\ UNCHANGED <<fout, comb_freq_dict, emitted_from>>
  /\ line_no' = line_no + 1
  /\ UNCHANGED <<file, min_replicates, pc, all_sample_names,
                 sample_name_list, intersect_out>>

\* second pass, one line that raises nothing: emitted or dropped
ExpandRow ==
  /\ pc = "expand"
  /\ line_no <= Len(file)
  /\ ~RowRaises(file[line_no], min_replicates)
  /\ LET lspl == file[line_no]
         samples == Samples(lspl[6], min_replicates)
     IN IF samples # <<>>
        THEN /\ fout' = Append(fout, OList(lspl, min_replicates,
                                           sample_name_list, total_out_intervals))
             /\ comb_freq_dict' =
                  CountCombination(comb_freq_dict, TSamples(lspl[6], min_replicates))
             /\ total_out_intervals' = total_out_intervals + 1
             /\ emitted_from' = Append(emitted_from, line_no)
        ELSE UNCHANGED <<fout, comb_freq_dict, total_out_intervals, emitted_from>>
  /\ line_no' = line_no + 1
  /\ UNCHANGED <<file, min_replicates, pc, all_sample_names,
                 sample_name_list, intersect_out>>

\* second pass, a line that raises: the exception leaves the with block,
\* which closes the output file with the lines written so far
ExpandFail ==
  /\ pc = "expand"
  /\ line_no <= Len(file)
  /\ RowRaises(file[line_no], min_replicates)
  /\ pc' = "failed"
  /\ UNCHANGED <<file, min_replicates, line_no, all_sample_names,
                 sample_name_list, fout, comb_freq_dict,
                 total_out_intervals, intersect_out, emitted_from>>

\* the .intersect.txt file
Summarize ==
  /\ pc = "expand"
  /\ line_no > Len(file)
  /\ intersect_out' = IntersectLines(comb_freq_dict)
  /\ pc' = "done"
  /\ UNCHANGED <<file, min_replicates, line_no, all_sample_names,
                 sample_name_list, fout, comb_freq_dict,
                 total_out_intervals, emitted_from>>

Next ==
  \/ DiscoverRow
  \/ DiscoverFail
  \/ WriteHeader
  \/ ExpandRow
  \/ ExpandFail
  \/ Summarize

Spec == Init /\ [][Next]_vars

----------------------------------------------------------------------------
(* Vocabulary of the properties *)

\* the SampleIDs of the sources of a row
SourceSamples(lspl) == {SampleId(lspl[6][i]) : i \in 1..Len(lspl[6])}

HasUnderscore(s) == \E i \in 1..Len(s) : s[i] = "_"

\* the ReplicateGroup of a SampleID: the text before its last "_"
ReplicateGroup(s) ==
  IF HasUnderscore(s)
  THEN LET last == CHOOSE i \in 1..Len(s) :
                     s[i] = "_" /\ \A j \in (i + 1)..Len(s) : s[j] # "_"
       IN SubSeq(s, 1, last - 1)
  ELSE <<>>

\* the members of the set ss of SampleIDs whose group has at least mr of them
PassingOf(ss, mr) ==
  {s \in ss :
     Cardinality({t \in ss : ReplicateGroup(t) = ReplicateGroup(s)}) >= mr}

\* the contributing samples of a row
Contributing(lspl, mr) == PassingOf(SourceSamples(lspl), mr)

NoGroupPasses(lspl, mr) == Contributing(lspl, mr) = {}

\* the second pass has started
Expanding == pc \in {"expand", "done"} \/ (pc = "failed" /\ fout # <<>>)

\* the input lines the second pass has gone through without raising
Expanded == IF Expanding THEN 1..(line_no - 1) ELSE {}

Emitted == 1..Len(emitted_from)

\* the output line of the k-th emitted row and the input row it comes from
OutLine(k) == fout[k + 1]

InRow(k) == file[emitted_from[k]]

Universe == 1..Len(sample_name_list)

BoolCol(k, i) == OutLine(k)[6 + i]

----------------------------------------------------------------------------
(* C1: in every emitted row, the .bool column of a sample s of the sample  *)
(* universe is TRUE iff s is the SampleID of a source of the row and the   *)
(* ReplicateGroup of s has at least min_replicates distinct SampleIDs      *)
(* among the sources of the row; otherwise it is FALSE.                    *)
C1_BoolColumns ==
  \A k \in Emitted :
    LET eligible == Contributing(InRow(k), min_replicates)
    IN \A i \in Universe :
         BoolCol(k, i) =
           IF sample_name_list[i] \in eligible THEN "TRUE" ELSE "FALSE"

\* an emitted row with a passing and a failing source, min_replicates = 2
C1_Witness ==
  /\ min_replicates = 2
  /\ \E k \in Emitted : \E i, j \in Universe :
       /\ BoolCol(k, i) = "TRUE"
       /\ BoolCol(k, j) = "FALSE"
       /\ sample_name_list[j] \in SourceSamples(InRow(k))

(* C2: a row is dropped exactly when none of its ReplicateGroups meets the *)
(* threshold, and a dropped row leaves the primary output, the combination *)
(* frequencies and the interval counter unchanged.                         *)
C2_DroppedRowFrame ==
  [][(pc = "expand" /\ line_no' = line_no + 1) =>
       IF NoGroupPasses(file[line_no], min_replicates)
       THEN /\ fout' = fout
            /\ comb_freq_dict' = comb_freq_dict
            /\ total_out_intervals' = total_out_intervals
       ELSE Len(fout') = Len(fout) + 1]_vars

\* a row was dropped after another one was emitted
C2_Witness ==
  /\ Expanding
  /\ total_out_intervals > 0
  /\ \E i \in Expanded :
       /\ ~InSeq(i, emitted_from)
       /\ \E k \in Emitted : emitted_from[k] < i

(* C3: the emitted rows appear in input order and the k-th emitted row     *)
(* carries Interval_k: 1-based, increasing by 1, no gap, no repeat; a      *)
(* dropped row consumes no identifier.                                     *)
C3_DenseIntervalIds ==
  /\ Len(emitted_from) = total_out_intervals
  /\ Expanding => Len(fout) = 1 + total_out_intervals
  /\ \A k \in Emitted :
       /\ OutLine(k)[4] = <<"Interval", k>>
       /\ emitted_from[k] \in Expanded
       /\ k > 1 => emitted_from[k - 1] < emitted_from[k]
       /\ OutLine(k)[2] = InRow(k)[2][1].v
       /\ OutLine(k)[5] = Len(InRow(k)[6])

\* two emitted rows with a dropped row between them
C3_Witness ==
  /\ pc = "done"
  /\ \E k \in Emitted :
       k > 1 /\ emitted_from[k] > emitted_from[k - 1] + 1

RECURSIVE SumCounts(_)
SumCounts(d) ==
  IF DOMAIN d = {} THEN 0
  ELSE LET t == CHOOSE x \in DOMAIN d : TRUE
       IN d[t] + SumCounts([x \in DOMAIN d \ {t} |-> d[x]])

RECURSIVE SumLines(_)
SumLines(ls) == IF ls = <<>> THEN 0 ELSE ls[1][2] + SumLines(Tail(ls))

\* t is the sorted tuple of the set S
SortedTupleOf(t, S) ==
  /\ {t[i] : i \in 1..Len(t)} = S
  /\ \A i \in 1..(Len(t) - 1) : StrLess(t[i], t[i + 1])

CountOf(d, t) == IF t \in DOMAIN d THEN d[t] ELSE 0

C4_SumInv ==
  /\ SumCounts(comb_freq_dict) = total_out_intervals
  /\ pc = "done" => SumLines(intersect_out) = Len(fout) - 1

C4_EmitStep ==
  total_out_intervals' # total_out_intervals =>
    \E t \in DOMAIN comb_freq_dict' :
      /\ SortedTupleOf(t, Contributing(file[line_no], min_replicates))
      /\ comb_freq_dict'[t] = CountOf(comb_freq_dict, t) + 1
      /\ DOMAIN comb_freq_dict' = DOMAIN comb_freq_dict \cup {t}
      /\ \A u \in DOMAIN comb_freq_dict :
           u # t => comb_freq_dict'[u] = comb_freq_dict[u]

(* C4: the counts of the combination frequencies sum to the number of rows *)
(* emitted so far, the counts of the secondary file sum to the number of   *)
(* data rows of the primary output, and each emitted row increments one    *)
(* key, the sorted tuple of its contributing SampleIDs, by 1.              *)
C4_CountsSumToEmitted == []C4_SumInv /\ [][C4_EmitStep]_vars

\* a finished run with a combination counted twice and another one
C4_Witness ==
  /\ pc = "done"
  /\ \E t, u \in DOMAIN comb_freq_dict : t # u /\ comb_freq_dict[t] >= 2

(* C5: in every emitted row num_samples is the number of TRUE entries of   *)
(* the .bool columns, a SampleID with several sources being counted once.  *)
C5_NumSamplesCountsTrue ==
  \A k \in Emitted :
    OutLine(k)[6] = Cardinality({i \in Universe : BoolCol(k, i) = "TRUE"})

\* an emitted row in which one SampleID has two sources
C5_Witness ==
  \E k \in Emitted :
    /\ Len(InRow(k)[6]) > Cardinality(SourceSamples(InRow(k)))
    /\ OutLine(k)[6] = 1

AllSourceSamples == UNION {SourceSamples(file[i]) : i \in 1..Len(file)}

C6_UniverseInv ==
  Expanding =>
    /\ {sample_name_list[i] : i \in Universe} = AllSourceSamples
    /\ Len(sample_name_list) = Cardinality(AllSourceSamples)
    /\ \A n \in 1..Len(fout) : Len(fout[n]) = 6 + 6 * Cardinality(AllSourceSamples)

C6_UniverseFixed ==
  pc = "expand" => sample_name_list' = sample_name_list

(* C6: the sample universe of the first pass is the union of the SampleIDs *)
(* of the names of every input row, it does not change during the second   *)
(* pass, and the header and every emitted row have 6 + 6*|universe|        *)
(* columns.                                                                *)
C6_UniverseAndColumns == []C6_UniverseInv /\ [][C6_UniverseFixed]_vars

\* a finished run with two data rows, one of them without a sample of the
\* universe
C6_Witness ==
  /\ pc = "done"
  /\ Len(fout) >= 3
  /\ Len(sample_name_list) >= 3
  /\ \E k \in Emitted : \E i \in Universe :
       sample_name_list[i] \notin SourceSamples(InRow(k))

\* the sample tuple and the count of a line of the secondary file
LineTuple(n) == Split(intersect_out[n][1], AMP)

LineCount(n) == intersect_out[n][2]

(* C7: the secondary file has one line per key of the final combination    *)
(* frequencies, by count descending; among equal counts the                *)
(* lexicographically larger sample tuple comes first.                      *)
C7_SummaryOrder ==
  pc = "done" =>
    /\ Len(intersect_out) = Cardinality(DOMAIN comb_freq_dict)
    /\ \A t \in DOMAIN comb_freq_dict :
         \E n \in 1..Len(intersect_out) :
           LineTuple(n) = t /\ LineCount(n) = comb_freq_dict[t]
    /\ \A n \in 1..(Len(intersect_out) - 1) :
         \/ LineCount(n) > LineCount(n + 1)
         \/ /\ LineCount(n) = LineCount(n + 1)
            /\ TupleLess(LineTuple(n + 1), LineTuple(n))

\* a finished run with two combinations of equal count
C7_Witness ==
  /\ pc = "done"
  /\ \E n \in 1..(Len(intersect_out) - 1) : LineCount(n) = LineCount(n + 1)

\* two of the six per-source sequences of the row differ in length
LengthsDiffer(lspl) ==
  /\ Len(lspl) >= 11
  /\ Cardinality({Len(lspl[c]) : c \in {4, 5, 6, 9, 10, 11}}) > 1

(* C8: a row in which two of the per-source sequences differ in length     *)
(* aborts the run; it is never emitted and never dropped silently.         *)
C8_MismatchIsFatal ==
  \A i \in Expanded : ~LengthsDiffer(file[i])

(* C9: when the run aborts on a malformed row, neither the header nor a    *)
(* data row has been written to the primary output, and the secondary      *)
(* output has not been written.                                            *)
C9_NoPartialOutput ==
  pc = "failed" => fout = <<>> /\ intersect_out = <<>>

\* the SampleIDs of the row that contain no "_"
Plain(lspl) == {s \in SourceSamples(lspl) : ~HasUnderscore(s)}

(* C10: the SampleIDs without "_" of a row share one ReplicateGroup: when  *)
(* the row has at least min_replicates of them, the row is emitted with    *)
(* all of them TRUE, and otherwise none of them is TRUE.                   *)
C10_PlainNamesShareGroup ==
  /\ \A i \in Expanded :
       LET plain == Plain(file[i])
       IN (plain # {} /\ Cardinality(plain) >= min_replicates)
            => InSeq(i, emitted_from)
  /\ \A k \in Emitted :
       LET plain == Plain(InRow(k))
       IN \A i \in Universe :
            sample_name_list[i] \in plain =>
              BoolCol(k, i) =
                IF Cardinality(plain) >= min_replicates
                THEN "TRUE" ELSE "FALSE"

\* min_replicates = 2 and a row of two unrelated plain names is emitted
\* with both TRUE
C10_Witness ==
  /\ min_replicates = 2
  /\ \E k \in Emitted :
       /\ Cardinality(Plain(InRow(k))) = 2
       /\ Cardinality(SourceSamples(InRow(k))) = 2
       /\ \A i \in Universe :
            sample_name_list[i] \in Plain(InRow(k)) => BoolCol(k, i) = "TRUE"

====
